---- MODULE Spec2Model ----
(***************************************************************************)
(* Model of pycycle/cea/new_thermo.py: the Thermo group (equilibrium       *)
(* solver, property group, engineering-unit flow station) and the          *)
(* Properties group (sensitivity system builder, two linear solves,        *)
(* property calculator), their set-up and the evaluation of the built      *)
(* model on inputs (b0, T, P).                                             *)
(*                                                                         *)
(* Numerical values are abstracted: mole numbers are small naturals, and   *)
(* the outputs of the sensitivity builder, the linear solves and the       *)
(* property calculator are symbolic terms that record the inputs they      *)
(* were computed from.                                                     *)
(***************************************************************************)
EXTENDS Integers, Sequences, FiniteSets, TLC

\* ------------------------------------------------------------------------
\* Bounds of the model
\* ------------------------------------------------------------------------
BMax == 2
PMax == 2
MaxEvals == 2
MaxEvalsOther == 1

\* ------------------------------------------------------------------------
\* Program constants
\* ------------------------------------------------------------------------
NumElement == 2
NumSpecies == 3
TMin == 1
TMax == 2
MaxIter == 2
MaxStep == 1
DefaultP == 1
DefaultT == 1

Methods == {"CEA", "Ideal", "Tabular", "Other"}

Modes == {"total_TP", "total_SP", "total_hP", "static_MN", "static_A", "static_Ps"}

Elements == 1..NumElement

Species == 1..NumSpecies

\* element counts of the species CO, CO2, O over the elements C, O
Stoich == << <<1, 1>>, <<1, 2>>, <<0, 1>> >>

\* element vectors, one entry below zero included
B0Set == [Elements -> (0 - 1)..BMax]

\* temperatures, one below and one above the table's range included
TSet == (TMin - 1)..(TMax + 1)

PSet == 1..PMax

Max(a, b) == IF a >= b THEN a ELSE b

Min(a, b) == IF a <= b THEN a ELSE b

Abs(a) == IF a >= 0 THEN a ELSE 0 - a

\* ------------------------------------------------------------------------
\* Set-up: Thermo.setup and Properties.setup
\* ------------------------------------------------------------------------

Subsystem(name, comp, pin, pout) ==
    [name |-> name, comp |-> comp, pin |-> pin, pout |-> pout]

CEASubsystems ==
    << Subsystem("thermo_TP", "ChemEq", {"b0", "T", "P"}, {"n", "n_moles"}),
       Subsystem("props", "Properties",
                 {"T", "P", "n", "n_moles", "b0"},
                 {"gamma", "Cp", "Cv", "rho", "R", "S", "h"}),
       Subsystem("flow", "EngUnitProps",
                 {"T", "P", "h", "S", "gamma", "Cp", "Cv", "rho", "n",
                  "n_moles", "R", "b0"},
                 {"flow:*"}) >>

\* Thermo.setup for a mode-dependent backend: adds a balance for total_SP
\* and hands the mode's letter to the solver
ThermoSetupModeAware(method, mode) ==
    IF method = "CEA"
    THEN [error |-> "none",
          base_mode |-> IF mode = "total_TP" THEN "T" ELSE "S",
          subsystems |-> IF mode = "total_SP"
                         THEN Append(CEASubsystems,
                                     Subsystem("balance", "BalanceComp", {}, {"T"}))
                         ELSE CEASubsystems,
          input_defaults |-> [P |-> DefaultP, T |-> DefaultT]]
    ELSE [error |-> "UnboundLocalError", base_mode |-> "unset",
          subsystems |-> << >>,
          input_defaults |-> [P |-> 0, T |-> 0]]

\* Thermo.setup that falls back to the CEA backend for the stubbed methods
ThermoSetupFallback(method, mode) ==
    [error |-> "none", base_mode |-> "T", subsystems |-> CEASubsystems,
     input_defaults |-> [P |-> DefaultP, T |-> DefaultT]]

\* Thermo.setup that adds the property group before the equilibrium solver
ThermoSetupPropsFirst(method, mode) ==
    IF method = "CEA"
    THEN [error |-> "none", base_mode |-> "T",
          subsystems |-> << CEASubsystems[2], CEASubsystems[1], CEASubsystems[3] >>,
          input_defaults |-> [P |-> DefaultP, T |-> DefaultT]]
    ELSE [error |-> "UnboundLocalError", base_mode |-> "unset",
          subsystems |-> << >>,
          input_defaults |-> [P |-> 0, T |-> 0]]

\* Thermo.setup: the result of the whole method for the options given
ThermoSetupResult(method, mode) ==
    IF method = "CEA"
    THEN [error |-> "none", base_mode |-> "T", subsystems |-> CEASubsystems,
          input_defaults |-> [P |-> DefaultP, T |-> DefaultT]]
    ELSE \* base_thermo is never bound: line 88 raises before add_subsystem
         [error |-> "UnboundLocalError", base_mode |-> "unset",
          subsystems |-> << >>,
          input_defaults |-> [P |-> 0, T |-> 0]]

Connection(src, tgt) == [src |-> src, tgt |-> tgt]

\* Properties.setup with the property calculator added before the solves
PropertiesSubsystemsCalcFirst ==
    << Subsystem("TP2ls", "PropsRHS", {"T", "n", "n_moles", "b0"}, {}),
       Subsystem("tp2props", "PropsCalcs", {"n", "n_moles", "T", "P"},
                 {"h", "S", "gamma", "Cp", "Cv", "rho", "R"}),
       Subsystem("ls2t", "LinearSystemComp", {}, {}),
       Subsystem("ls2p", "LinearSystemComp", {}, {}) >>

\* Properties.setup with the linear solves added before the builder
PropertiesSubsystemsSolveFirst ==
    << Subsystem("ls2t", "LinearSystemComp", {}, {}),
       Subsystem("ls2p", "LinearSystemComp", {}, {}),
       Subsystem("TP2ls", "PropsRHS", {"T", "n", "n_moles", "b0"}, {}),
       Subsystem("tp2props", "PropsCalcs", {"n", "n_moles", "T", "P"},
                 {"h", "S", "gamma", "Cp", "Cv", "rho", "R"}) >>

\* Properties.setup, lines 24-33: the subsystems in the order they are added
PropertiesSubsystems ==
    << Subsystem("TP2ls", "PropsRHS", {"T", "n", "n_moles", "b0"}, {}),
       Subsystem("ls2t", "LinearSystemComp", {}, {}),
       Subsystem("ls2p", "LinearSystemComp", {}, {}),
       Subsystem("tp2props", "PropsCalcs", {"n", "n_moles", "T", "P"},
                 {"h", "S", "gamma", "Cp", "Cv", "rho", "R"}) >>

\* Properties.setup with the two right-hand sides crossed
PropertiesConnectionsRhsCrossed ==
    { Connection(<<"TP2ls", "lhs_TP">>, <<"ls2t", "A">>),
      Connection(<<"TP2ls", "lhs_TP">>, <<"ls2p", "A">>),
      Connection(<<"TP2ls", "rhs_P">>, <<"ls2t", "b">>),
      Connection(<<"TP2ls", "rhs_T">>, <<"ls2p", "b">>),
      Connection(<<"ls2t", "x">>, <<"tp2props", "result_T">>),
      Connection(<<"ls2p", "x">>, <<"tp2props", "result_P">>) }

\* Properties.setup with the two solution vectors crossed
PropertiesConnectionsResultCrossed ==
    { Connection(<<"TP2ls", "lhs_TP">>, <<"ls2t", "A">>),
      Connection(<<"TP2ls", "lhs_TP">>, <<"ls2p", "A">>),
      Connection(<<"TP2ls", "rhs_T">>, <<"ls2t", "b">>),
      Connection(<<"TP2ls", "rhs_P">>, <<"ls2p", "b">>),
      Connection(<<"ls2p", "x">>, <<"tp2props", "result_T">>),
      Connection(<<"ls2t", "x">>, <<"tp2props", "result_P">>) }

\* Properties.setup, lines 34-38: the explicit connections
PropertiesConnections ==
    { Connection(<<"TP2ls", "lhs_TP">>, <<"ls2t", "A">>),
      Connection(<<"TP2ls", "lhs_TP">>, <<"ls2p", "A">>),
      Connection(<<"TP2ls", "rhs_T">>, <<"ls2t", "b">>),
      Connection(<<"TP2ls", "rhs_P">>, <<"ls2p", "b">>),
      Connection(<<"ls2t", "x">>, <<"tp2props", "result_T">>),
      Connection(<<"ls2p", "x">>, <<"tp2props", "result_P">>) }

\* ------------------------------------------------------------------------
\* State
\* ------------------------------------------------------------------------
VARIABLES
    opt_method,     \* options['thermo_dict']['method']
    opt_mode,       \* options['mode']
    pc,             \* "init", "thermo_configured", "setup_failed", "idle", "run", "done"
    setup_error,    \* exception that ended Thermo.setup, or "none"
    base_mode,      \* mode the equilibrium solver was created in, or "unset"
    subsystems,     \* subsystems of the Thermo group, in the order added
    input_defaults, \* set_input_defaults of the Thermo group
    psubsystems,    \* subsystems of the Properties group, in the order added
    connections,    \* explicit connections of the Properties group
    inputs,         \* the values set for b0, T, P
    vec,            \* the output vector: value of every component output
    k,              \* position of the running evaluation in the run order
    phase,          \* position inside the equilibrium solver
    iter,           \* Newton iterations performed in this evaluation
    n_est,          \* the Newton iterate
    error,          \* typed failure of the running evaluation, or "none"
    returned,       \* what the last evaluation gave to its caller
    trace,          \* the stages run in this evaluation, in order
    produced,       \* outputs written in this evaluation
    stale,          \* inputs read in this evaluation before being produced
    evals           \* number of evaluations started

config == <<opt_method, opt_mode, setup_error, base_mode, subsystems, input_defaults,
            psubsystems, connections>>

run == <<inputs, vec, k, phase, iter, n_est, error, returned, trace,
         produced, stale, evals>>

vars == <<pc, config, run>>

\* ------------------------------------------------------------------------
\* Run order and data flow of the built model
\* ------------------------------------------------------------------------

Leaf(parent, s) ==
    [parent |-> parent, name |-> s.name, comp |-> s.comp,
     pin |-> s.pin, pout |-> s.pout]

RECURSIVE RunOrder(_, _)
\* components in the order a run of the Thermo group executes them:
\* subsystems run in the order they were added, a group runs its own in turn
RunOrder(subs, psubs) ==
    IF subs = << >> THEN << >>
    ELSE (IF Head(subs).comp = "Properties"
          THEN [i \in 1..Len(psubs) |-> Leaf("props", psubs[i])]
          ELSE << Leaf("thermo", Head(subs)) >>)
         \o RunOrder(Tail(subs), psubs)

NoSource == [kind |-> "none", comp |-> "", var |-> ""]

OutSource(c, v) == [kind |-> "out", comp |-> c, var |-> v]

ExtSource(v) == [kind |-> "ext", comp |-> "", var |-> v]

\* the subsystem of Properties that promotes the output v
PropsProducer(psubs, v) ==
    IF \E i \in 1..Len(psubs) : v \in psubs[i].pout
    THEN OutSource(psubs[CHOOSE i \in 1..Len(psubs) : v \in psubs[i].pout].name, v)
    ELSE NoSource

\* the source of the name v promoted to the Thermo group
ThermoLevel(subs, psubs, v) ==
    IF \E i \in 1..Len(subs) : v \in subs[i].pout
    THEN LET s == subs[CHOOSE i \in 1..Len(subs) : v \in subs[i].pout]
         IN  IF s.comp = "Properties" THEN PropsProducer(psubs, v)
             ELSE OutSource(s.name, v)
    ELSE ExtSource(v)

\* the source of input v of the component leaf
Source(subs, psubs, conns, leaf, v) ==
    IF leaf.parent = "props"
    THEN IF \E c \in conns : c.tgt = <<leaf.name, v>>
         THEN LET c == CHOOSE c \in conns : c.tgt = <<leaf.name, v>>
              IN  OutSource(c.src[1], c.src[2])
         ELSE IF v \in leaf.pin
         THEN IF PropsProducer(psubs, v).kind = "out"
              THEN PropsProducer(psubs, v)
              ELSE IF \E i \in 1..Len(subs) :
                         subs[i].comp = "Properties" /\ v \in subs[i].pin
              THEN ThermoLevel(subs, psubs, v)
              ELSE NoSource
         ELSE NoSource
    ELSE IF v \in leaf.pin THEN ThermoLevel(subs, psubs, v) ELSE NoSource

DefaultTerm == [kind |-> "default", finite |-> TRUE]

Default(v) ==
    CASE v = "n" -> [i \in Species |-> 1]
      [] v = "n_moles" -> NumSpecies
      [] v = "b0" -> [j \in Elements |-> 1]
      [] v = "T" -> DefaultT
      [] v = "P" -> DefaultP
      [] OTHER -> DefaultTerm

OutputKeys ==
    { <<"thermo_TP", "n">>, <<"thermo_TP", "n_moles">>,
      <<"TP2ls", "lhs_TP">>, <<"TP2ls", "rhs_T">>, <<"TP2ls", "rhs_P">>,
      <<"ls2t", "x">>, <<"ls2p", "x">>, <<"flow", "flow:*">> }
    \cup { <<"tp2props", v>> : v \in {"h", "S", "gamma", "Cp", "Cv", "rho", "R"} }

SourceOf(leaf, v) == Source(subsystems, psubsystems, connections, leaf, v)

\* the value a component reads for its input v
Read(leaf, v) ==
    LET s == SourceOf(leaf, v)
    IN  CASE s.kind = "out" -> vec[<<s.comp, s.var>>]
          [] s.kind = "ext" -> IF v \in DOMAIN inputs THEN inputs[v] ELSE Default(v)
          [] OTHER -> Default(v)

\* the inputs among vs whose source has not been written in this evaluation
StaleReads(leaf, vs) ==
    { <<leaf.name, v>> : v \in
        { w \in vs : LET s == SourceOf(leaf, w)
                     IN  s.kind = "out" /\ <<s.comp, s.var>> \notin produced } }

\* ------------------------------------------------------------------------
\* The components
\* ------------------------------------------------------------------------

RECURSIVE SumTo(_, _)
SumTo(f, m) == IF m = 0 THEN 0 ELSE f[m] + SumTo(f, m - 1)

\* validation that only rejects negative entries
InvalidCompositionNegativeOnly(b) == \E j \in Elements : b[j] < 0

\* equilibrium solver: b0 is malformed
InvalidComposition(b) ==
    (\E j \in Elements : b[j] < 0) \/ SumTo(b, NumElement) = 0

\* species table: some temperature segment covers T
TableCovers(T) == TMin <= T /\ T <= TMax

\* moles of element j held by the species amounts n
Abundance(n, j) == SumTo([i \in Species |-> Stoich[i][j] * n[i]], NumSpecies)

BalanceResidual(n, b) ==
    LET r == [j \in Elements |-> Abs(Abundance(n, j) - b[j])]
    IN  CHOOSE m \in {r[j] : j \in Elements} : \A j \in Elements : r[j] <= m

\* the composition the Newton iteration moves to: CO2 dissociates into
\* CO and O with rising T and falling P, as far as the elements allow
EqTarget(b, T, P) ==
    LET lo == Max(0, 2 * b[1] - b[2])
        hi == b[1]
        d  == IF lo > hi THEN hi ELSE Max(lo, Min(hi, Max(0, T - P)))
    IN  << d, b[1] - d, Max(0, b[2] - 2 * b[1] + d) >>

ColdStart == [i \in Species |-> 0]

\* one damped Newton step: no amount moves by more than MaxStep
NewtonStep(n, b, T, P) ==
    LET t == EqTarget(b, T, P)
    IN  [i \in Species |-> n[i] + Max(0 - MaxStep, Min(MaxStep, t[i] - n[i]))]

\* convergence test that looks at the step only, not at the element balance
ConvergedStepOnly(n, b, T, P) == n = EqTarget(b, T, P)

Converged(n, b, T, P) ==
    n = EqTarget(b, T, P) /\ BalanceResidual(n, b) = 0

\* sensitivity system builder
PropsRHS(T, n, n_moles, b0) ==
    LET arg(kd) == [kind |-> kd, T |-> T, n |-> n, n_moles |-> n_moles,
                    b0 |-> b0, finite |-> TRUE]
    IN  [lhs_TP |-> arg("lhs_TP"), rhs_T |-> arg("rhs_T"), rhs_P |-> arg("rhs_P")]

\* linear solver: the matrix has a zero row (an element held by no species)
Singular(A) ==
    IF A.kind = "default" THEN TRUE
    ELSE \E j \in Elements : Abundance(A.n, j) = 0

LinearSolve(A, b) == [kind |-> "x", A |-> A, b |-> b, finite |-> TRUE]

PropNames == {"h", "S", "gamma", "Cp", "Cv", "rho", "R"}

\* property calculator
PropsCalcs(n, n_moles, T, P, result_T, result_P) ==
    [v \in PropNames |->
        [kind |-> v, n |-> n, n_moles |-> n_moles, T |-> T, P |-> P,
         result_T |-> result_T, result_P |-> result_P]]

NonFinite(result_T, result_P) == ~result_T.finite \/ ~result_P.finite

\* ------------------------------------------------------------------------
\* Evaluation: sequencing, failure and return
\* ------------------------------------------------------------------------

Order == RunOrder(subsystems, psubsystems)

Stage == Order[k]

\* run_model that carries on with the next subsystem after a failure
RunNextSwallow(cur, len, err) == IF cur = len THEN 0 ELSE cur + 1

\* position after the stage at cur ended with err; 0 is the end of the run
RunNext(cur, len, err) ==
    IF err # "none" THEN 0
    ELSE IF cur = len THEN 0 ELSE cur + 1

NoReturn(inp) == [status |-> "none", error |-> "none", inputs |-> inp]

\* the promoted outputs of the Thermo group
ReturnNames == UNION {subsystems[i].pout : i \in 1..Len(subsystems)}

ReturnVals(v) ==
    [w \in ReturnNames |->
        LET s == ThermoLevel(subsystems, psubsystems, w)
        IN  IF s.kind = "out" THEN v[<<s.comp, s.var>>] ELSE Default(w)]

\* what run_model gives its caller: the typed failure with the inputs, or
\* normal return, after which the caller reads the promoted outputs
Returned(err) ==
    IF err # "none"
    THEN [status |-> "error", error |-> err, inputs |-> inputs]
    ELSE [status |-> "ok", error |-> "none", inputs |-> inputs]

\* the result the caller holds: nothing unless run_model returned normally
Result == IF returned.status = "ok" THEN << ReturnVals(vec) >> ELSE << >>

\* the stage at k ended: err is its failure or "none", v the output vector
EndStage(err, v) ==
    LET nk == RunNext(k, Len(Order), err)
        e  == IF error # "none" THEN error ELSE err
    IN  /\ k' = nk
        /\ pc' = IF nk = 0 THEN "done" ELSE "run"
        /\ error' = e
        /\ returned' = IF nk = 0 THEN Returned(e) ELSE returned
        /\ vec' = v
        /\ phase' = "check"

\* ------------------------------------------------------------------------
\* Initial state and actions
\* ------------------------------------------------------------------------

DefaultInputs == [b0 |-> Default("b0"), T |-> DefaultT, P |-> DefaultP]

Init ==
    /\ opt_method \in Methods
    /\ opt_mode \in Modes
    /\ pc = "init"
    /\ setup_error = "none"
    /\ base_mode = "unset"
    /\ subsystems = << >>
    /\ input_defaults = [P |-> 0, T |-> 0]
    /\ psubsystems = << >>
    /\ connections = {}
    /\ inputs = DefaultInputs
    /\ vec = [key \in OutputKeys |-> Default(key[2])]
    /\ k = 0
    /\ phase = "check"
    /\ iter = 0
    /\ n_est = ColdStart
    /\ error = "none"
    /\ returned = NoReturn(DefaultInputs)
    /\ trace = << >>
    /\ produced = {}
    /\ stale = {}
    /\ evals = 0

\* Thermo.setup
ThermoSetup ==
    /\ pc = "init"
    /\ LET r == ThermoSetupResult(opt_method, opt_mode)
       IN  /\ setup_error' = r.error
           /\ base_mode' = r.base_mode
           /\ subsystems' = r.subsystems
           /\ input_defaults' = r.input_defaults
           /\ pc' = IF r.error = "none" THEN "thermo_configured" ELSE "setup_failed"
    /\ UNCHANGED <<opt_method, opt_mode, psubsystems, connections, run>>

\* Properties.setup, run for the props subsystem once Thermo.setup returned
PropertiesSetup ==
    /\ pc = "thermo_configured"
    /\ psubsystems' = PropertiesSubsystems
    /\ connections' = PropertiesConnections
    /\ pc' = "idle"
    /\ UNCHANGED <<opt_method, opt_mode, setup_error, base_mode, subsystems,
                   input_defaults, run>>

\* evaluations explored: MaxEvals in the default mode, MaxEvalsOther in the
\* other modes
EvalBudget == IF opt_mode = "total_TP" THEN MaxEvals ELSE MaxEvalsOther

\* set_val of b0, T, P followed by run_model
StartEvaluation ==
    /\ pc = "idle"
    /\ evals < EvalBudget
    /\ Len(Order) >= 1
    /\ \E b \in B0Set, T \in TSet, P \in PSet :
          /\ inputs' = [b0 |-> b, T |-> T, P |-> P]
          /\ returned' = NoReturn([b0 |-> b, T |-> T, P |-> P])
    /\ pc' = "run"
    /\ k' = 1
    /\ phase' = "check"
    /\ iter' = 0
    /\ n_est' = ColdStart
    /\ error' = "none"
    /\ trace' = << >>
    /\ produced' = {}
    /\ stale' = {}
    /\ evals' = evals + 1
    /\ UNCHANGED <<config, vec>>

\* the caller has taken the outcome of the evaluation; the next evaluation
\* sets every input anew, the output vector stays as the run left it
Collect ==
    /\ pc = "done"
    /\ pc' = "idle"
    /\ inputs' = DefaultInputs
    /\ returned' = NoReturn(DefaultInputs)
    /\ k' = 0
    /\ phase' = "check"
    /\ iter' = 0
    /\ n_est' = ColdStart
    /\ error' = "none"
    /\ trace' = << >>
    /\ produced' = {}
    /\ stale' = {}
    /\ UNCHANGED <<config, vec, evals>>

Running(comp) == pc = "run" /\ Stage.comp = comp

\* equilibrium solver: validation of b0 and T, then the cold start
ChemEqCheck ==
    /\ Running("ChemEq")
    /\ phase = "check"
    /\ trace' = Append(trace, Stage.name)
    /\ stale' = stale \cup StaleReads(Stage, {"b0", "T", "P"})
    /\ LET b == Read(Stage, "b0")
           T == Read(Stage, "T")
       IN  IF InvalidComposition(b)
           THEN EndStage("InvalidCompositionError", vec)
                /\ UNCHANGED <<iter, n_est>>
           ELSE IF ~TableCovers(T)
           THEN EndStage("OutOfRangeError", vec) /\ UNCHANGED <<iter, n_est>>
           ELSE /\ phase' = "newton"
                /\ n_est' = ColdStart
                /\ iter' = 0
                /\ UNCHANGED <<pc, k, error, returned, vec>>
    /\ UNCHANGED <<config, inputs, produced, evals>>

\* equilibrium solver: one Newton iteration
NewtonIter ==
    /\ Running("ChemEq")
    /\ phase = "newton"
    /\ LET b == Read(Stage, "b0")
           T == Read(Stage, "T")
           P == Read(Stage, "P")
       IN  /\ ~Converged(n_est, b, T, P)
           /\ iter < MaxIter
           /\ n_est' = NewtonStep(n_est, b, T, P)
           /\ iter' = iter + 1
    /\ UNCHANGED <<pc, config, inputs, vec, k, phase, error, returned, trace,
                   produced, stale, evals>>

\* equilibrium solver: tolerance met, n and n_moles are written
ChemEqConverged ==
    /\ Running("ChemEq")
    /\ phase = "newton"
    /\ Converged(n_est, Read(Stage, "b0"), Read(Stage, "T"), Read(Stage, "P"))
    /\ EndStage("none", [vec EXCEPT ![<<Stage.name, "n">>] = n_est,
                                    ![<<Stage.name, "n_moles">>] =
                                        SumTo(n_est, NumSpecies)])
    /\ produced' = produced \cup {<<Stage.name, "n">>, <<Stage.name, "n_moles">>}
    /\ UNCHANGED <<config, inputs, iter, n_est, trace, stale, evals>>

\* equilibrium solver: iteration budget spent without convergence
ChemEqExhausted ==
    /\ Running("ChemEq")
    /\ phase = "newton"
    /\ ~Converged(n_est, Read(Stage, "b0"), Read(Stage, "T"), Read(Stage, "P"))
    /\ iter = MaxIter
    /\ EndStage("ConvergenceError", vec)
    /\ UNCHANGED <<config, inputs, iter, n_est, trace, produced, stale, evals>>

\* sensitivity system builder TP2ls
RunPropsRHS ==
    /\ Running("PropsRHS")
    /\ trace' = Append(trace, Stage.name)
    /\ stale' = stale \cup StaleReads(Stage, {"T", "n", "n_moles", "b0"})
    /\ LET o == PropsRHS(Read(Stage, "T"), Read(Stage, "n"),
                         Read(Stage, "n_moles"), Read(Stage, "b0"))
       IN  EndStage("none", [vec EXCEPT ![<<Stage.name, "lhs_TP">>] = o.lhs_TP,
                                        ![<<Stage.name, "rhs_T">>] = o.rhs_T,
                                        ![<<Stage.name, "rhs_P">>] = o.rhs_P])
    /\ produced' = produced \cup {<<Stage.name, v>> : v \in {"lhs_TP", "rhs_T", "rhs_P"}}
    /\ UNCHANGED <<config, inputs, iter, n_est, evals>>

\* linear solves ls2t and ls2p
RunLinearSystemComp ==
    /\ Running("LinearSystemComp")
    /\ trace' = Append(trace, Stage.name)
    /\ stale' = stale \cup StaleReads(Stage, {"A", "b"})
    /\ LET A == Read(Stage, "A")
           b == Read(Stage, "b")
       IN  IF Singular(A)
           THEN EndStage("SingularMatrixError", vec) /\ UNCHANGED produced
           ELSE /\ EndStage("none", [vec EXCEPT ![<<Stage.name, "x">>] =
                                                   LinearSolve(A, b)])
                /\ produced' = produced \cup {<<Stage.name, "x">>}
    /\ UNCHANGED <<config, inputs, iter, n_est, evals>>

\* property calculator tp2props
RunPropsCalcs ==
    /\ Running("PropsCalcs")
    /\ trace' = Append(trace, Stage.name)
    /\ stale' = stale \cup
                StaleReads(Stage, {"n", "n_moles", "T", "P", "result_T", "result_P"})
    /\ LET rT == Read(Stage, "result_T")
           rP == Read(Stage, "result_P")
           o  == PropsCalcs(Read(Stage, "n"), Read(Stage, "n_moles"),
                            Read(Stage, "T"), Read(Stage, "P"), rT, rP)
       IN  IF NonFinite(rT, rP)
           THEN EndStage("PropertyComputationError", vec) /\ UNCHANGED produced
           ELSE /\ EndStage("none",
                     [key \in OutputKeys |->
                        IF key[1] = Stage.name THEN o[key[2]] ELSE vec[key]])
                /\ produced' = produced \cup {<<Stage.name, v>> : v \in PropNames}
    /\ UNCHANGED <<config, inputs, iter, n_est, evals>>

\* engineering-unit flow station
RunEngUnitProps ==
    /\ Running("EngUnitProps")
    /\ trace' = Append(trace, Stage.name)
    /\ stale' = stale \cup StaleReads(Stage, Stage.pin)
    /\ EndStage("none", [vec EXCEPT ![<<Stage.name, "flow:*">>] =
                            [kind |-> "flow", finite |-> TRUE,
                             args |-> [v \in Stage.pin |-> Read(Stage, v)]]])
    /\ produced' = produced \cup {<<Stage.name, "flow:*">>}
    /\ UNCHANGED <<config, inputs, iter, n_est, evals>>

Next ==
    \/ ThermoSetup
    \/ PropertiesSetup
    \/ StartEvaluation
    \/ Collect
    \/ ChemEqCheck
    \/ NewtonIter
    \/ ChemEqConverged
    \/ ChemEqExhausted
    \/ RunPropsRHS
    \/ RunLinearSystemComp
    \/ RunPropsCalcs
    \/ RunEngUnitProps

Spec == Init /\ [][Next]_vars

TypeOK ==
    /\ pc \in {"init", "thermo_configured", "setup_failed", "idle", "run", "done"}
    /\ k \in 0..7
    /\ iter \in 0..MaxIter

\* ------------------------------------------------------------------------
\* The engine as a function of (b0, T, P) alone, from a cold start
\* ------------------------------------------------------------------------

RECURSIVE NewtonRun(_, _, _, _, _)
NewtonRun(n, it, b, T, P) ==
    IF n = EqTarget(b, T, P) /\ BalanceResidual(n, b) = 0
    THEN [ok |-> TRUE, n |-> n, iter |-> it]
    ELSE IF it >= MaxIter THEN [ok |-> FALSE, n |-> n, iter |-> it]
    ELSE NewtonRun(NewtonStep(n, b, T, P), it + 1, b, T, P)

Engine(b, T, P) ==
    LET nr  == NewtonRun(ColdStart, 0, b, T, P)
        nm  == SumTo(nr.n, NumSpecies)
        rhs == PropsRHS(T, nr.n, nm, b)
        xT  == LinearSolve(rhs.lhs_TP, rhs.rhs_T)
        xP  == LinearSolve(rhs.lhs_TP, rhs.rhs_P)
        pr  == PropsCalcs(nr.n, nm, T, P, xT, xP)
        top == [v \in PropNames \cup {"n", "n_moles", "T", "P", "b0"} |->
                  CASE v = "n" -> nr.n
                    [] v = "n_moles" -> nm
                    [] v = "T" -> T
                    [] v = "P" -> P
                    [] v = "b0" -> b
                    [] OTHER -> pr[v]]
        fl  == [kind |-> "flow", finite |-> TRUE,
                args |-> [v \in {"T", "P", "h", "S", "gamma", "Cp", "Cv", "rho",
                                 "n", "n_moles", "R", "b0"} |-> top[v]]]
        err == IF (\E j \in Elements : b[j] < 0) \/ SumTo(b, NumElement) = 0
               THEN "InvalidCompositionError"
               ELSE IF T < TMin \/ T > TMax THEN "OutOfRangeError"
               ELSE IF ~nr.ok THEN "ConvergenceError"
               ELSE IF \E j \in Elements : Abundance(nr.n, j) = 0
               THEN "SingularMatrixError"
               ELSE "none"
    IN  [error |-> err,
         vals |-> IF err # "none" THEN << >>
                  ELSE << [v \in PropNames \cup {"n", "n_moles", "flow:*"} |->
                             IF v = "flow:*" THEN fl ELSE top[v]] >>]

InTrace(name) == \E i \in 1..Len(trace) : trace[i] = name

IsPrefix(s, t) == Len(s) <= Len(t) /\ \A i \in 1..Len(s) : s[i] = t[i]

Built == pc \in {"idle", "run", "done"}

SourcesOf(tgt) == {c.src : c \in {d \in connections : d.tgt = tgt}}

Out(comp, v) == vec[<<comp, v>>]

\* ------------------------------------------------------------------------
\* Claims
\* ------------------------------------------------------------------------

\* C1: both linear solves use the one matrix the sensitivity builder
\* produced in this evaluation (TP2ls.lhs_TP feeds ls2t.A and ls2p.A); the
\* temperature solve has rhs_T and nothing else as right-hand side, the
\* pressure solve rhs_P and nothing else.
C1_SharedMatrix ==
    /\ Built =>
         /\ SourcesOf(<<"ls2t", "A">>) = {<<"TP2ls", "lhs_TP">>}
         /\ SourcesOf(<<"ls2p", "A">>) = {<<"TP2ls", "lhs_TP">>}
         /\ SourcesOf(<<"ls2t", "b">>) = {<<"TP2ls", "rhs_T">>}
         /\ SourcesOf(<<"ls2p", "b">>) = {<<"TP2ls", "rhs_P">>}
    /\ <<"ls2t", "x">> \in produced =>
         /\ <<"TP2ls", "lhs_TP">> \in produced
         /\ Out("ls2t", "x").A = Out("TP2ls", "lhs_TP")
         /\ Out("ls2t", "x").b = Out("TP2ls", "rhs_T")
         /\ Out("ls2t", "x").b.kind = "rhs_T"
    /\ <<"ls2p", "x">> \in produced =>
         /\ <<"TP2ls", "lhs_TP">> \in produced
         /\ Out("ls2p", "x").A = Out("TP2ls", "lhs_TP")
         /\ Out("ls2p", "x").A = Out("ls2t", "x").A
         /\ Out("ls2p", "x").b = Out("TP2ls", "rhs_P")
         /\ Out("ls2p", "x").b.kind = "rhs_P"

C1_Witness ==
    /\ evals = 2
    /\ <<"ls2t", "x">> \in produced
    /\ <<"ls2p", "x">> \in produced

FullTrace == <<"thermo_TP", "TP2ls", "ls2t", "ls2p", "tp2props", "flow">>

\* C2: within an evaluation the stages run in the order equilibrium solver,
\* sensitivity builder, linear solves, property calculator; no stage reads
\* an output before it was written in this evaluation, the builder reads
\* the n and n_moles the solver wrote for the current inputs, and the
\* properties are written only after both linear solves.
C2_StageOrder ==
    /\ IsPrefix(trace, FullTrace)
    /\ stale = {}
    /\ InTrace("TP2ls") =>
         /\ <<"thermo_TP", "n">> \in produced
         /\ Out("TP2ls", "lhs_TP").n = Out("thermo_TP", "n")
         /\ Out("TP2ls", "lhs_TP").n_moles = Out("thermo_TP", "n_moles")
         /\ Out("TP2ls", "lhs_TP").n =
                NewtonRun(ColdStart, 0, inputs.b0, inputs.T, inputs.P).n
         /\ Out("TP2ls", "lhs_TP").T = inputs.T
    /\ (\E v \in PropNames : <<"tp2props", v>> \in produced) =>
         /\ <<"ls2t", "x">> \in produced
         /\ <<"ls2p", "x">> \in produced

C2_Witness ==
    /\ pc = "done"
    /\ evals = 2
    /\ trace = FullTrace
    /\ <<"tp2props", "gamma">> \in produced

NoDuplicates(s) == \A i, j \in 1..Len(s) : s[i] = s[j] => i = j

ErrorsOf(comp) ==
    CASE comp = "ChemEq" ->
           {"InvalidCompositionError", "OutOfRangeError", "ConvergenceError"}
      [] comp = "LinearSystemComp" -> {"SingularMatrixError"}
      [] comp = "PropsCalcs" -> {"PropertyComputationError"}
      [] OTHER -> {}

CompOf(name) == (CHOOSE i \in 1..Len(Order) : Order[i].name = name)

InNewton == pc = "run" /\ phase = "newton"

C4_Bounded ==
    /\ iter <= MaxIter
    /\ <<"thermo_TP", "n">> \in produced =>
         /\ Out("thermo_TP", "n") = EqTarget(inputs.b0, inputs.T, inputs.P)
         /\ BalanceResidual(Out("thermo_TP", "n"), inputs.b0) = 0
         /\ Out("thermo_TP", "n_moles") = SumTo(Out("thermo_TP", "n"), NumSpecies)
         /\ error # "ConvergenceError"
    /\ error = "ConvergenceError" =>
         /\ iter = MaxIter
         /\ BalanceResidual(n_est, inputs.b0) # 0
              \/ n_est # EqTarget(inputs.b0, inputs.T, inputs.P)
         /\ produced = {}
         /\ Result = << >>

C4_Step ==
    /\ (InNewton /\ InNewton') => (iter' = iter + 1 /\ iter' <= MaxIter)
    /\ (InNewton /\ ~InNewton') =>
          \/ error' = "ConvergenceError"
          \/ (error' = "none" /\ <<"thermo_TP", "n">> \in produced')

\* C4: every run of the equilibrium solver terminates: every step that stays
\* in the Newton loop adds one to an iteration count that never exceeds
\* MaxIter, and the loop is left with a converged (n, n_moles) or with
\* ConvergenceError; when the budget is spent without convergence no n is
\* written.
C4_SolverTerminates ==
    /\ []C4_Bounded
    /\ [][C4_Step]_vars

C4_Witness ==
    /\ pc = "done"
    /\ error = "ConvergenceError"
    /\ iter = MaxIter
    /\ \A j \in Elements : inputs.b0[j] > 0

C6_Stateless ==
    pc = "done" =>
        /\ returned.error = Engine(inputs.b0, inputs.T, inputs.P).error
        /\ returned.inputs = inputs
        /\ Result = Engine(inputs.b0, inputs.T, inputs.P).vals

C6_Witness ==
    /\ pc = "done"
    /\ evals = 2
    /\ returned.status = "ok"
    /\ inputs.T # DefaultT

\* C7: the matrix the two linear solves use is the one built in this
\* evaluation from this evaluation's converged n, n_moles and T, never one
\* left in the output vector by an earlier evaluation.
C7_FreshMatrix ==
    \A ls \in {"ls2t", "ls2p"} :
        InTrace(ls) =>
            /\ <<"TP2ls", "lhs_TP">> \in produced
            /\ <<"thermo_TP", "n">> \in produced
            /\ Read(Order[CompOf(ls)], "A") =
                 [kind |-> "lhs_TP", T |-> inputs.T, n |-> n_est,
                  n_moles |-> SumTo(n_est, NumSpecies), b0 |-> inputs.b0,
                  finite |-> TRUE]
            /\ <<ls, "x">> \in produced =>
                 Out(ls, "x").A = Read(Order[CompOf(ls)], "A")

\* the solves of a second evaluation have run while the property outputs
\* still hold the matrix of the earlier evaluation, built from other inputs
C7_Witness ==
    /\ evals = 2
    /\ <<"ls2p", "x">> \in produced
    /\ <<"tp2props", "h">> \notin produced
    /\ Out("tp2props", "h").kind = "h"
    /\ Out("tp2props", "h").result_T.A # Out("ls2t", "x").A

\* C8: the property calculator's result_T is the solution of the system
\* with right-hand side rhs_T and its result_P the solution of the system
\* with rhs_P; they are not swapped, and each input of the calculator has
\* exactly one producer.
C8_CalculatorInputs ==
    /\ Built =>
         /\ SourcesOf(<<"tp2props", "result_T">>) = {<<"ls2t", "x">>}
         /\ SourcesOf(<<"tp2props", "result_P">>) = {<<"ls2p", "x">>}
         /\ \A v \in {"n", "n_moles", "T", "P"} :
              /\ SourcesOf(<<"tp2props", v>>) = {}
              /\ pc # "idle" \/ psubsystems = << >> \/
                   SourceOf(Leaf("props", psubsystems[4]), v).kind \in {"out", "ext"}
    /\ \A v \in PropNames :
         <<"tp2props", v>> \in produced =>
            /\ Out("tp2props", v).result_T = Out("ls2t", "x")
            /\ Out("tp2props", v).result_T.b = Out("TP2ls", "rhs_T")
            /\ Out("tp2props", v).result_T.b.kind = "rhs_T"
            /\ Out("tp2props", v).result_P = Out("ls2p", "x")
            /\ Out("tp2props", v).result_P.b = Out("TP2ls", "rhs_P")
            /\ Out("tp2props", v).result_P.b.kind = "rhs_P"

C8_Witness ==
    /\ evals = 2
    /\ \A v \in PropNames : <<"tp2props", v>> \in produced

\* C9: for every method other than 'CEA', Thermo.setup assigns no base
\* solver, adds none of thermo_TP, props, flow, and ends in an error; no
\* model is built and none is evaluated.
C9_StubbedBackends ==
    (opt_method # "CEA" /\ pc # "init") =>
        /\ pc = "setup_failed"
        /\ setup_error # "none"
        /\ base_mode = "unset"
        /\ subsystems = << >>
        /\ psubsystems = << >>
        /\ evals = 0

C9_Witness ==
    /\ opt_method = "Ideal"
    /\ pc = "setup_failed"

\* C10: with method 'CEA', each of the six modes builds the same model:
\* thermo_TP, props, flow in this order with the same promotions, the
\* solver in 'T' mode, no error; a non-TP mode is evaluated as total_TP.
C10_ModeIgnored ==
    (opt_method = "CEA" /\ pc # "init") =>
        /\ opt_mode \in Modes
        /\ setup_error = "none"
        /\ base_mode = "T"
        /\ [i \in 1..Len(subsystems) |-> subsystems[i].name] =
              <<"thermo_TP", "props", "flow">>
        /\ subsystems[1].comp = "ChemEq"
        /\ subsystems[1].pin = {"b0", "T", "P"}
        /\ subsystems[1].pout = {"n", "n_moles"}
        /\ subsystems[2].pin = {"T", "P", "n", "n_moles", "b0"}
        /\ subsystems[2].pout = {"gamma", "Cp", "Cv", "rho", "R", "S", "h"}
        /\ subsystems[3].pin = {"T", "P", "h", "S", "gamma", "Cp", "Cv", "rho",
                                "n", "n_moles", "R", "b0"}
        /\ input_defaults = [P |-> DefaultP, T |-> DefaultT]
        /\ pc = "done" => returned.error = Engine(inputs.b0, inputs.T, inputs.P).error

C10_Witness ==
    /\ opt_method = "CEA"
    /\ opt_mode = "static_MN"
    /\ pc = "done"
    /\ returned.status = "ok"

====
